---------------------------- MODULE Spec2Model ----------------------------
(***************************************************************************)
(* The typed MILP builder of src/src/lib.rs: the Model with its mutators,  *)
(* the assembly of the compressed sparse column arrays in to_raw, and the  *)
(* calls to_raw and solve make on the engine (raw::Model).                 *)
(*                                                                         *)
(* Col(n) and Row(n) are modelled by the u32 n they wrap.  A Vec is a      *)
(* sequence, so the element at index i is v[i + 1].  An f64 is modelled by *)
(* its literal, a string, so that 0.0, -0.0, NaN and the infinities stay   *)
(* distinct values; the only f64 operation of the code is `weight == 0.`.  *)
(***************************************************************************)
EXTENDS Integers, Sequences, FiniteSets, TLC

VARIABLES num_cols, num_rows, col_lower, col_upper, row_lower, row_upper,
          obj_coefficients, weights, is_integer, sense,
          minted_cols, minted_rows, last, repeated, ret, panicked, calls

model == <<num_cols, num_rows, col_lower, col_upper, row_lower, row_upper,
           obj_coefficients, weights, is_integer, sense>>

vars == <<num_cols, num_rows, col_lower, col_upper, row_lower, row_upper,
          obj_coefficients, weights, is_integer, sense,
          minted_cols, minted_rows, last, repeated, ret, panicked, calls>>

-----------------------------------------------------------------------------
(* Bounds of the model.                                                    *)

MaxCols == 2
MaxRows == 2
MaxCalls == 6
\* Row and Col handles another Model may have minted: 0 .. MaxForeign - 1.
MaxForeign == 3

-----------------------------------------------------------------------------
(* f64 values.                                                             *)

INFINITY == "inf"
NEG_INFINITY == "-inf"

\* The weights a caller passes to set_weight.
WeightVals == {"0.0", "-0.0", "2.0", "NaN"}
\* The values a caller passes to the bound and objective setters.
SetVals == {"-inf", "5.0", "inf"}
Senses == {"Minimize", "Maximize"}

\* `weight == 0.` on f64: true of 0.0 and of -0.0, false of NaN.
IsZero(w) == w = "0.0" \/ w = "-0.0"

SenseDefault == "Minimize"

\* `x as c_int` from u32 or usize keeps every value up to c_int's maximum, and no
\* count or handle of a bounded Model comes near it.
C_INT_MAX == 2147483647
as_c_int(n) == IF n <= C_INT_MAX THEN n ELSE n - C_INT_MAX - C_INT_MAX - 2

as_usize(h) == h

-----------------------------------------------------------------------------
(* BTreeMap<Row, f64>: a function from the set of its keys.                *)

EmptyMap == [r \in {} |-> "0.0"]

Keys(m) == DOMAIN m

insert(m, row, weight) == [r \in Keys(m) \cup {row} |-> IF r = row THEN weight ELSE m[r]]

remove(m, row) == [r \in Keys(m) \ {row} |-> m[r]]

\* An iteration that starts from the greatest key.
LastKey(S) == CHOOSE r \in S : \A q \in S : r >= q

\* The first key an iteration over the map yields: the least one.
FirstKey(S) == CHOOSE r \in S : \A q \in S : r <= q

\* Iteration over a BTreeMap: the entries in ascending key order.
RECURSIVE IterFrom(_, _)
IterFrom(m, S) ==
    IF S = {} THEN <<>>
    ELSE LET r == FirstKey(S) IN <<[row |-> r, weight |-> m[r]]>> \o IterFrom(m, S \ {r})

iter(m) == IterFrom(m, Keys(m))

-----------------------------------------------------------------------------
(* Init: Model::default().                                                 *)

Unit == [kind |-> "unit"]
NoCall == [op |-> "new", col |-> -1, row |-> -1, value |-> ""]

Init ==
    /\ num_cols = 0
    /\ num_rows = 0
    /\ col_lower = <<>>
    /\ col_upper = <<>>
    /\ row_lower = <<>>
    /\ row_upper = <<>>
    /\ obj_coefficients = <<>>
    /\ weights = <<>>
    /\ is_integer = <<>>
    /\ sense = SenseDefault
    /\ minted_cols = <<>>
    /\ minted_rows = <<>>
    /\ last = NoCall
    /\ repeated = FALSE
    /\ ret = Unit
    /\ panicked = FALSE
    /\ calls = 0

\* A call is made by a live caller; a panic ends the caller.
Alive == ~panicked /\ calls < MaxCalls

Call(op, col, row, value) ==
    /\ last' = [op |-> op, col |-> col, row |-> row, value |-> value]
    /\ repeated' = (last = [op |-> op, col |-> col, row |-> row, value |-> value])
    /\ calls' = calls + 1

\* v[i] of a Vec: a bounds fault when i is not below the length.
InBounds(v, i) == i < Len(v)

\* v[i] = x
store(v, i, x) == [v EXCEPT ![i + 1] = x]

-----------------------------------------------------------------------------
(* The mutators.                                                           *)

\* An add_col that makes the handle after it has counted the column.
AddColHandleAfterCount ==
    /\ Alive
    /\ num_cols < MaxCols
    /\ Call("add_col", -1, -1, "")
    /\ num_cols' = num_cols + 1
    /\ obj_coefficients' = Append(obj_coefficients, "0.0")
    /\ weights' = Append(weights, EmptyMap)
    /\ is_integer' = Append(is_integer, FALSE)
    /\ col_lower' = Append(col_lower, "0.0")
    /\ col_upper' = Append(col_upper, INFINITY)
    /\ ret' = [kind |-> "col", handle |-> num_cols + 1]
    /\ minted_cols' = Append(minted_cols, num_cols + 1)
    /\ UNCHANGED <<num_rows, row_lower, row_upper, sense, minted_rows, panicked>>

\* An add_col whose column is unbounded below.
AddColFree ==
    /\ Alive
    /\ num_cols < MaxCols
    /\ Call("add_col", -1, -1, "")
    /\ num_cols' = num_cols + 1
    /\ obj_coefficients' = Append(obj_coefficients, "0.0")
    /\ weights' = Append(weights, EmptyMap)
    /\ is_integer' = Append(is_integer, FALSE)
    /\ col_lower' = Append(col_lower, NEG_INFINITY)
    /\ col_upper' = Append(col_upper, INFINITY)
    /\ ret' = [kind |-> "col", handle |-> num_cols]
    /\ minted_cols' = Append(minted_cols, num_cols)
    /\ UNCHANGED <<num_rows, row_lower, row_upper, sense, minted_rows, panicked>>

AddCol ==
    /\ Alive
    /\ num_cols < MaxCols
    /\ Call("add_col", -1, -1, "")
    /\ num_cols' = num_cols + 1
    /\ obj_coefficients' = Append(obj_coefficients, "0.0")
    /\ weights' = Append(weights, EmptyMap)
    /\ is_integer' = Append(is_integer, FALSE)
    /\ col_lower' = Append(col_lower, "0.0")
    /\ col_upper' = Append(col_upper, INFINITY)
    /\ ret' = [kind |-> "col", handle |-> num_cols]
    /\ minted_cols' = Append(minted_cols, num_cols)
    /\ UNCHANGED <<num_rows, row_lower, row_upper, sense, minted_rows, panicked>>

\* An add_row that pushes no lower bound.
AddRowNoLower ==
    /\ Alive
    /\ num_rows < MaxRows
    /\ Call("add_row", -1, -1, "")
    /\ num_rows' = num_rows + 1
    /\ row_upper' = Append(row_upper, INFINITY)
    /\ ret' = [kind |-> "row", handle |-> num_rows]
    /\ minted_rows' = Append(minted_rows, num_rows)
    /\ UNCHANGED <<num_cols, col_lower, col_upper, row_lower, obj_coefficients, weights,
                   is_integer, sense, minted_cols, panicked>>

AddRow ==
    /\ Alive
    /\ num_rows < MaxRows
    /\ Call("add_row", -1, -1, "")
    /\ num_rows' = num_rows + 1
    /\ row_lower' = Append(row_lower, NEG_INFINITY)
    /\ row_upper' = Append(row_upper, INFINITY)
    /\ ret' = [kind |-> "row", handle |-> num_rows]
    /\ minted_rows' = Append(minted_rows, num_rows)
    /\ UNCHANGED <<num_cols, col_lower, col_upper, obj_coefficients, weights,
                   is_integer, sense, minted_cols, panicked>>

\* A set_weight without the test for zero.
set_weight_unconditional(col_weights, row, weight) == insert(col_weights, row, weight)

\* A set_weight that drops the entry it finds.
set_weight_toggle(col_weights, row, weight) ==
    IF IsZero(weight) \/ row \in Keys(col_weights)
    THEN remove(col_weights, row)
    ELSE insert(col_weights, row, weight)

set_weight(col_weights, row, weight) ==
    IF IsZero(weight) THEN remove(col_weights, row) ELSE insert(col_weights, row, weight)

SetWeight(row, col, weight) ==
    /\ Alive
    /\ Call("set_weight", col, row, weight)
    /\ IF InBounds(weights, as_usize(col))
       THEN /\ weights' = store(weights, as_usize(col),
                                set_weight(weights[as_usize(col) + 1], row, weight))
            /\ UNCHANGED panicked
       ELSE /\ panicked' = TRUE
            /\ UNCHANGED weights
    /\ ret' = Unit
    /\ UNCHANGED <<num_cols, num_rows, col_lower, col_upper, row_lower, row_upper,
                   obj_coefficients, is_integer, sense, minted_cols, minted_rows>>

SetInteger(col) ==
    /\ Alive
    /\ Call("set_integer", col, -1, "")
    /\ IF InBounds(is_integer, as_usize(col))
       THEN /\ is_integer' = store(is_integer, as_usize(col), TRUE)
            /\ UNCHANGED panicked
       ELSE /\ panicked' = TRUE
            /\ UNCHANGED is_integer
    /\ ret' = Unit
    /\ UNCHANGED <<num_cols, num_rows, col_lower, col_upper, row_lower, row_upper,
                   obj_coefficients, weights, sense, minted_cols, minted_rows>>

SetContinuous(col) ==
    /\ Alive
    /\ Call("set_continuous", col, -1, "")
    /\ IF InBounds(is_integer, as_usize(col))
       THEN /\ is_integer' = store(is_integer, as_usize(col), FALSE)
            /\ UNCHANGED panicked
       ELSE /\ panicked' = TRUE
            /\ UNCHANGED is_integer
    /\ ret' = Unit
    /\ UNCHANGED <<num_cols, num_rows, col_lower, col_upper, row_lower, row_upper,
                   obj_coefficients, weights, sense, minted_cols, minted_rows>>

\* A set_binary that leaves the lower bound as it finds it.
SetBinaryKeepLower(col) ==
    /\ Alive
    /\ Call("set_binary", col, -1, "")
    /\ IF InBounds(is_integer, as_usize(col)) /\ InBounds(col_upper, as_usize(col))
       THEN /\ is_integer' = store(is_integer, as_usize(col), TRUE)
            /\ col_upper' = store(col_upper, as_usize(col), "1.0")
            /\ UNCHANGED panicked
       ELSE /\ panicked' = TRUE
            /\ UNCHANGED <<is_integer, col_upper>>
    /\ ret' = Unit
    /\ UNCHANGED <<num_cols, num_rows, col_lower, row_lower, row_upper, obj_coefficients,
                   weights, sense, minted_cols, minted_rows>>

\* set_integer(col); set_col_lower(col, 0.); set_col_upper(col, 1.): the first of
\* the three to fault ends the call, with the writes before it done.
SetBinary(col) ==
    /\ Alive
    /\ Call("set_binary", col, -1, "")
    /\ IF InBounds(is_integer, as_usize(col))
       THEN /\ is_integer' = store(is_integer, as_usize(col), TRUE)
            /\ IF InBounds(col_lower, as_usize(col))
               THEN /\ col_lower' = store(col_lower, as_usize(col), "0.0")
                    /\ IF InBounds(col_upper, as_usize(col))
                       THEN /\ col_upper' = store(col_upper, as_usize(col), "1.0")
                            /\ UNCHANGED panicked
                       ELSE /\ panicked' = TRUE
                            /\ UNCHANGED col_upper
               ELSE /\ panicked' = TRUE
                    /\ UNCHANGED <<col_lower, col_upper>>
       ELSE /\ panicked' = TRUE
            /\ UNCHANGED <<is_integer, col_lower, col_upper>>
    /\ ret' = Unit
    /\ UNCHANGED <<num_cols, num_rows, row_lower, row_upper, obj_coefficients,
                   weights, sense, minted_cols, minted_rows>>

SetColUpper(col, value) ==
    /\ Alive
    /\ Call("set_col_upper", col, -1, value)
    /\ IF InBounds(col_upper, as_usize(col))
       THEN /\ col_upper' = store(col_upper, as_usize(col), value)
            /\ UNCHANGED panicked
       ELSE /\ panicked' = TRUE
            /\ UNCHANGED col_upper
    /\ ret' = Unit
    /\ UNCHANGED <<num_cols, num_rows, col_lower, row_lower, row_upper,
                   obj_coefficients, weights, is_integer, sense, minted_cols,
                   minted_rows>>

SetColLower(col, value) ==
    /\ Alive
    /\ Call("set_col_lower", col, -1, value)
    /\ IF InBounds(col_lower, as_usize(col))
       THEN /\ col_lower' = store(col_lower, as_usize(col), value)
            /\ UNCHANGED panicked
       ELSE /\ panicked' = TRUE
            /\ UNCHANGED col_lower
    /\ ret' = Unit
    /\ UNCHANGED <<num_cols, num_rows, col_upper, row_lower, row_upper,
                   obj_coefficients, weights, is_integer, sense, minted_cols,
                   minted_rows>>

SetObjCoeff(col, value) ==
    /\ Alive
    /\ Call("set_obj_coeff", col, -1, value)
    /\ IF InBounds(obj_coefficients, as_usize(col))
       THEN /\ obj_coefficients' = store(obj_coefficients, as_usize(col), value)
            /\ UNCHANGED panicked
       ELSE /\ panicked' = TRUE
            /\ UNCHANGED obj_coefficients
    /\ ret' = Unit
    /\ UNCHANGED <<num_cols, num_rows, col_lower, col_upper, row_lower, row_upper,
                   weights, is_integer, sense, minted_cols, minted_rows>>

SetRowUpper(row, value) ==
    /\ Alive
    /\ Call("set_row_upper", -1, row, value)
    /\ IF InBounds(row_upper, as_usize(row))
       THEN /\ row_upper' = store(row_upper, as_usize(row), value)
            /\ UNCHANGED panicked
       ELSE /\ panicked' = TRUE
            /\ UNCHANGED row_upper
    /\ ret' = Unit
    /\ UNCHANGED <<num_cols, num_rows, col_lower, col_upper, row_lower,
                   obj_coefficients, weights, is_integer, sense, minted_cols,
                   minted_rows>>

SetRowLower(row, value) ==
    /\ Alive
    /\ Call("set_row_lower", -1, row, value)
    /\ IF InBounds(row_lower, as_usize(row))
       THEN /\ row_lower' = store(row_lower, as_usize(row), value)
            /\ UNCHANGED panicked
       ELSE /\ panicked' = TRUE
            /\ UNCHANGED row_lower
    /\ ret' = Unit
    /\ UNCHANGED <<num_cols, num_rows, col_lower, col_upper, row_upper,
                   obj_coefficients, weights, is_integer, sense, minted_cols,
                   minted_rows>>

SetObjSense(s) ==
    /\ Alive
    /\ Call("set_obj_sense", -1, -1, s)
    /\ sense' = s
    /\ ret' = Unit
    /\ UNCHANGED <<num_cols, num_rows, col_lower, col_upper, row_lower, row_upper,
                   obj_coefficients, weights, is_integer, minted_cols, minted_rows,
                   panicked>>

-----------------------------------------------------------------------------
(* to_raw: the assembly of start, index and value, and the engine calls.   *)

\* The loop over self.weights, columns k .. in turn; start, index and value are the
\* vectors built so far.
RECURSIVE AssembleFrom(_, _, _, _, _)
AssembleFrom(ws, k, start, index, value) ==
    IF k > Len(ws) THEN [start |-> start, index |-> index, value |-> value]
    ELSE LET es == iter(ws[k])
             index2 == index \o [i \in 1 .. Len(es) |-> as_c_int(es[i].row)]
             value2 == value \o [i \in 1 .. Len(es) |-> es[i].weight]
         IN AssembleFrom(ws, k + 1, Append(start, as_c_int(Len(index2))), index2, value2)

Assemble(ws) == AssembleFrom(ws, 1, <<0>>, <<>>, <<>>)

EngineCall(op, col, s) == [op |-> op, col |-> col, sense |-> s]

\* A loop that tells the engine of the integer columns only.
IntegerCallsOnly(ints) ==
    LET all == [i \in 1 .. Len(ints) |->
                   EngineCall(IF ints[i] THEN "set_integer" ELSE "set_continuous", i - 1, "")]
        IsInt(c) == c.op = "set_integer"
    IN SelectSeq(all, IsInt)

\* The loop over self.is_integer: one engine call for each column.
IntegralityCalls(ints) ==
    [i \in 1 .. Len(ints) |->
        EngineCall(IF ints[i] THEN "set_integer" ELSE "set_continuous", i - 1, "")]

\* The raw::Model to_raw returns: what load_problem was given, and every call made
\* on the engine, in order.
to_raw ==
    LET csc == Assemble(weights)
        loaded == [num_cols |-> num_cols, num_rows |-> num_rows,
                   start |-> csc.start, index |-> csc.index, value |-> csc.value,
                   col_lower |-> col_lower, col_upper |-> col_upper,
                   obj_coefficients |-> obj_coefficients,
                   row_lower |-> row_lower, row_upper |-> row_upper]
    IN [kind |-> "raw",
        loaded |-> loaded,
        engine |-> <<EngineCall("load_problem", -1, "")>>
                   \o IntegralityCalls(is_integer)
                   \o <<EngineCall("set_obj_sense", -1, sense)>>]

\* A to_raw that moves the weight maps out of the Model.
ToRawTakesWeights ==
    /\ Alive
    /\ Call("to_raw", -1, -1, "")
    /\ ret' = to_raw
    /\ weights' = [c \in 1 .. Len(weights) |-> EmptyMap]
    /\ UNCHANGED <<num_cols, num_rows, col_lower, col_upper, row_lower, row_upper,
                   obj_coefficients, is_integer, sense, minted_cols, minted_rows,
                   panicked>>

ToRaw ==
    /\ Alive
    /\ Call("to_raw", -1, -1, "")
    /\ ret' = to_raw
    /\ UNCHANGED <<num_cols, num_rows, col_lower, col_upper, row_lower, row_upper,
                   obj_coefficients, weights, is_integer, sense, minted_cols,
                   minted_rows, panicked>>

\* solve: to_raw, then the engine's solve on the instance; the Solution owns it.
solve == [to_raw EXCEPT !.kind = "solution",
                        !.engine = Append(@, EngineCall("solve", -1, ""))]

Solve ==
    /\ Alive
    /\ Call("solve", -1, -1, "")
    /\ ret' = solve
    /\ UNCHANGED <<num_cols, num_rows, col_lower, col_upper, row_lower, row_upper,
                   obj_coefficients, weights, is_integer, sense, minted_cols,
                   minted_rows, panicked>>

-----------------------------------------------------------------------------
(* The callers.                                                            *)

\* The handles this Model has minted.
Minted(handles) == {handles[i] : i \in 1 .. Len(handles)}

\* Every handle a Model can mint within the bounds, this one or another.
Foreign == 0 .. MaxForeign - 1

\* A caller that keeps the contract passes only handles this Model returned.
Cols == Minted(minted_cols)
Rows == Minted(minted_rows)

Next ==
    \/ AddCol
    \/ AddRow
    \/ \E row \in Rows, col \in Cols, weight \in WeightVals : SetWeight(row, col, weight)
    \/ \E col \in Cols : SetInteger(col)
    \/ \E col \in Cols : SetContinuous(col)
    \/ \E col \in Cols : SetBinary(col)
    \/ \E col \in Cols, value \in SetVals : SetColUpper(col, value)
    \/ \E col \in Cols, value \in SetVals : SetColLower(col, value)
    \/ \E col \in Cols, value \in SetVals : SetObjCoeff(col, value)
    \/ \E row \in Rows, value \in SetVals : SetRowUpper(row, value)
    \/ \E row \in Rows, value \in SetVals : SetRowLower(row, value)
    \/ \E s \in Senses : SetObjSense(s)
    \/ ToRaw
    \/ Solve

Spec == Init /\ [][Next]_vars

\* A caller that also holds handles of another Model.
NextForeign ==
    \/ AddCol
    \/ AddRow
    \/ \E row \in Foreign, col \in Foreign, weight \in WeightVals :
          SetWeight(row, col, weight)
    \/ \E col \in Foreign : SetInteger(col)
    \/ \E col \in Foreign : SetContinuous(col)
    \/ \E col \in Foreign : SetBinary(col)
    \/ \E col \in Foreign, value \in SetVals : SetColUpper(col, value)
    \/ \E col \in Foreign, value \in SetVals : SetColLower(col, value)
    \/ \E col \in Foreign, value \in SetVals : SetObjCoeff(col, value)
    \/ \E row \in Foreign, value \in SetVals : SetRowUpper(row, value)
    \/ \E row \in Foreign, value \in SetVals : SetRowLower(row, value)
    \/ \E s \in Senses : SetObjSense(s)
    \/ ToRaw
    \/ Solve

SpecForeign == Init /\ [][NextForeign]_vars

-----------------------------------------------------------------------------
(* The properties.  `last` is the call just made and `ret` what it         *)
(* returned, so a property of a call's result is a predicate of the state  *)
(* the call leaves.                                                        *)

Assembled == last.op \in {"to_raw", "solve"}

ColIdx == 1 .. Len(weights)

RECURSIVE StoredEntries(_)
StoredEntries(k) == IF k = 0 THEN 0 ELSE Cardinality(Keys(weights[k])) + StoredEntries(k - 1)

\* C1: the arrays to_raw builds are the compressed sparse column form of weights:
\* start has num_cols + 1 slots, begins at 0, never decreases and ends at the length
\* of index and of value, which is the number of stored entries; the slice of column
\* c holds exactly the rows of weights[c], strictly ascending, with their
\* coefficients; a column without entries has an empty slice; and the weight sets
\* {}, {row0: 2} give start = [0, 0, 1], index = [0], value = [2].
C1_CscAssembly ==
    Assembled =>
        LET start == ret.loaded.start
            index == ret.loaded.index
            value == ret.loaded.value
            Slice(c) == start[c] + 1 .. start[c + 1]
        IN /\ Len(start) = num_cols + 1
           /\ start[1] = 0
           /\ \A c \in 1 .. num_cols : start[c] <= start[c + 1]
           /\ start[num_cols + 1] = Len(index)
           /\ Len(index) = Len(value)
           /\ Len(index) = StoredEntries(Len(weights))
           /\ \A c \in 1 .. num_cols :
                 /\ {index[i] : i \in Slice(c)} = Keys(weights[c])
                 /\ \A i, j \in Slice(c) : i < j => index[i] < index[j]
                 /\ \A i \in Slice(c) : value[i] = weights[c][index[i]]
                 /\ Keys(weights[c]) = {} => start[c] = start[c + 1]
           /\ (weights = <<EmptyMap, insert(EmptyMap, 0, "2.0")>> =>
                 /\ start = <<0, 0, 1>>
                 /\ index = <<0>>
                 /\ value = <<"2.0">>)

\* to_raw has assembled a column that holds two rows.
C1_Witness ==
    /\ last.op = "to_raw"
    /\ \E c \in ColIdx : Keys(weights[c]) = {0, 1}
    /\ ret.loaded.start = <<0, 2>>
    /\ ret.loaded.index = <<0, 1>>

\* C2: no weight map holds an entry whose value is zero: set_weight with a zero
\* weight leaves the row absent from the column, and set_weight with a nonzero
\* weight w leaves the column's lookup of the row at exactly w.
C2_NoStoredZero ==
    /\ \A c \in ColIdx : \A r \in Keys(weights[c]) : weights[c][r] \notin {"0.0", "-0.0"}
    /\ last.op = "set_weight" =>
          LET col_weights == weights[last.col + 1]
          IN IF last.value \in {"0.0", "-0.0"}
             THEN last.row \notin Keys(col_weights)
             ELSE last.row \in Keys(col_weights) /\ col_weights[last.row] = last.value

\* set_weight with a zero weight has just removed an entry: the call before it was
\* not the same call, and the column still holds its other row.
C2_Witness ==
    /\ last.op = "set_weight"
    /\ last.value = "-0.0"
    /\ last.row = 0
    /\ Keys(weights[last.col + 1]) = {1}
    /\ weights[last.col + 1][1] = "NaN"

LengthsAgree ==
    /\ Len(col_lower) = num_cols
    /\ Len(col_upper) = num_cols
    /\ Len(obj_coefficients) = num_cols
    /\ Len(weights) = num_cols
    /\ Len(is_integer) = num_cols
    /\ Len(row_lower) = num_rows
    /\ Len(row_upper) = num_rows

CountsStep ==
    /\ num_cols' = IF last'.op = "add_col" THEN num_cols + 1 ELSE num_cols
    /\ num_rows' = IF last'.op = "add_row" THEN num_rows + 1 ELSE num_rows

\* C3: every per-column vector has length num_cols and every per-row vector length
\* num_rows, and a call changes num_cols by +1 if it is add_col and not at all
\* otherwise, and num_rows by +1 if it is add_row and not at all otherwise.
C3_LengthsAndCounts == []LengthsAgree /\ [][CountsStep]_vars

\* Columns and rows were added and mutators ran after them.
C3_Witness ==
    /\ num_cols = 2
    /\ num_rows = 2
    /\ last.op = "set_weight"
    /\ calls = MaxCalls

\* C4: the k-th add_col returns the handle k - 1, which is num_cols before the
\* call, and likewise add_row; so the handles of one kind are strictly increasing
\* and distinct, and each is below the current count.
C4_Handles ==
    /\ \A k \in 1 .. Len(minted_cols) : minted_cols[k] = k - 1 /\ minted_cols[k] < num_cols
    /\ \A k \in 1 .. Len(minted_rows) : minted_rows[k] = k - 1 /\ minted_rows[k] < num_rows
    /\ \A j, k \in 1 .. Len(minted_cols) : j < k => minted_cols[j] < minted_cols[k]
    /\ \A j, k \in 1 .. Len(minted_rows) : j < k => minted_rows[j] < minted_rows[k]
    /\ last.op = "add_col" => ret.handle = num_cols - 1 /\ ret.handle = Len(minted_cols) - 1
    /\ last.op = "add_row" => ret.handle = num_rows - 1 /\ ret.handle = Len(minted_rows) - 1

\* The second add_col has returned, after other calls.
C4_Witness ==
    /\ last.op = "add_col"
    /\ minted_cols = <<0, 1>>
    /\ minted_rows = <<0, 1>>
    /\ ret.handle = 1
    /\ calls > 4

\* The handle of the last call lies outside the Model's vectors.
OutOfBounds ==
    \/ last.op \in {"set_weight", "set_row_upper", "set_row_lower"} /\ last.row >= num_rows
    \/ /\ last.op \in {"set_weight", "set_integer", "set_continuous", "set_binary",
                       "set_col_upper", "set_col_lower", "set_obj_coeff"}
       /\ last.col >= num_cols

\* C5: a call with a handle outside the Model's bounds faults, and no weight entry
\* is stored for a row that is not below num_rows.
C5_FailFast ==
    /\ OutOfBounds => panicked
    /\ \A c \in ColIdx : \A r \in Keys(weights[c]) : r < num_rows

\* C6: set_binary(col) leaves the column integer with bounds 0 and 1, whatever they
\* were, which is the state set_integer(col), set_col_lower(col, 0) and
\* set_col_upper(col, 1) leave, and changes nothing else of the Model.
C6_SetBinary ==
    [][last'.op = "set_binary" =>
          LET c == last'.col + 1
          IN /\ is_integer'[c] = TRUE /\ col_lower'[c] = "0.0" /\ col_upper'[c] = "1.0"
             /\ is_integer' = [is_integer EXCEPT ![c] = TRUE]
             /\ col_lower' = [col_lower EXCEPT ![c] = "0.0"]
             /\ col_upper' = [col_upper EXCEPT ![c] = "1.0"]
             /\ UNCHANGED <<num_cols, num_rows, row_lower, row_upper, obj_coefficients,
                            weights, sense>>]_vars

\* set_binary has acted on the second column, and the first is continuous with
\* other bounds.
C6_Witness ==
    /\ last.op = "set_binary"
    /\ last.col = 1
    /\ is_integer = <<FALSE, TRUE>>
    /\ col_lower = <<"-inf", "0.0">>
    /\ col_upper = <<"5.0", "1.0">>

\* C7: to_raw and solve change no field of the Model, and an assembly that follows
\* an assembly hands the engine what the first did: the problem loaded, the
\* integrality calls and the sense.
C7_AssemblyReadOnly ==
    [][last'.op \in {"to_raw", "solve"} =>
          /\ model' = model
          /\ Assembled =>
                /\ ret'.loaded = ret.loaded
                /\ SubSeq(ret'.engine, 1, num_cols + 2) = SubSeq(ret.engine, 1, num_cols + 2)]_vars

\* solve has run twice in a row on a Model that holds a weight.
C7_Witness ==
    /\ last.op = "solve"
    /\ repeated
    /\ \E c \in ColIdx : Keys(weights[c]) # {}

\* C8: a set_weight that repeats the call before it leaves the Model as that call left
\* it, and no set_weight changes num_cols, num_rows or the length of a vector.
C8_SetWeightIdempotent ==
    [][last'.op = "set_weight" =>
          /\ last' = last => model' = model
          /\ UNCHANGED <<num_cols, num_rows>>
          /\ Len(col_lower') = Len(col_lower)
          /\ Len(col_upper') = Len(col_upper)
          /\ Len(row_lower') = Len(row_lower)
          /\ Len(row_upper') = Len(row_upper)
          /\ Len(obj_coefficients') = Len(obj_coefficients)
          /\ Len(weights') = Len(weights)
          /\ Len(is_integer') = Len(is_integer)]_vars

\* set_weight has run twice in a row with the same nonzero weight.
C8_Witness ==
    /\ last.op = "set_weight"
    /\ repeated
    /\ last.value = "2.0"
    /\ weights[last.col + 1][last.row] = "2.0"

\* set_weight has run twice in a row with a zero weight.
C8_WitnessZero ==
    /\ last.op = "set_weight"
    /\ repeated
    /\ last.value = "0.0"

\* C9: the engine calls of one to_raw are load_problem, then for the columns
\* 0 .. num_cols - 1 in this order one call each, set_integer(c) if is_integer[c]
\* and set_continuous(c) if not, then set_obj_sense with the Model's sense, and no
\* other; and is_integer[c] is what the last of set_integer(c) and
\* set_continuous(c) made it.
C9_EngineCalls ==
    /\ Assembled =>
          /\ Len(ret.engine) = num_cols + 2 + (IF last.op = "solve" THEN 1 ELSE 0)
          /\ ret.engine[1] = EngineCall("load_problem", -1, "")
          /\ \A c \in 0 .. num_cols - 1 :
                ret.engine[c + 2] =
                    EngineCall(IF is_integer[c + 1] THEN "set_integer" ELSE "set_continuous",
                               c, "")
          /\ ret.engine[num_cols + 2] = EngineCall("set_obj_sense", -1, sense)
    /\ last.op = "set_integer" => is_integer[last.col + 1] = TRUE
    /\ last.op = "set_continuous" => is_integer[last.col + 1] = FALSE

\* to_raw has run on a Model with a continuous and an integer column, to maximize.
C9_Witness ==
    /\ last.op = "to_raw"
    /\ is_integer = <<FALSE, TRUE>>
    /\ sense = "Maximize"
    /\ Len(ret.engine) = 4

\* C10: add_col appends a column with objective coefficient 0, no weights, not
\* integer and bounds 0 and +infinity, add_row a row with bounds -infinity and
\* +infinity, and neither changes what the columns and rows before hold, nor the
\* sense.
C10_AddDefaults ==
    [][/\ last'.op = "add_col" =>
             /\ obj_coefficients' = Append(obj_coefficients, "0.0")
             /\ weights' = Append(weights, EmptyMap)
             /\ is_integer' = Append(is_integer, FALSE)
             /\ col_lower' = Append(col_lower, "0.0")
             /\ col_upper' = Append(col_upper, "inf")
             /\ UNCHANGED <<row_lower, row_upper, sense>>
       /\ last'.op = "add_row" =>
             /\ row_lower' = Append(row_lower, "-inf")
             /\ row_upper' = Append(row_upper, "inf")
             /\ UNCHANGED <<obj_coefficients, weights, is_integer, col_lower, col_upper,
                            sense>>]_vars

\* add_col has appended a second column to a Model whose first column has a weight
\* and is integer.
C10_Witness ==
    /\ last.op = "add_col"
    /\ num_cols = 2
    /\ Keys(weights[1]) # {}
    /\ is_integer = <<TRUE, FALSE>>
    /\ col_upper[2] = "inf"

=============================================================================
